---------------------------- MODULE Spec2Model ----------------------------
(***************************************************************************)
(* A model of the data layer of BudgetsCalm-desktop (src/src/lib/db.ts):   *)
(* the budgets and expenses collections of the local document store and   *)
(* the operations of the DB object that read and write them.              *)
(*                                                                         *)
(* Months ("YYYY-MM") and dates ("YYYY-MM-DD") are JavaScript strings. The *)
(* code slices them (substr), compares them as strings (range queries)    *)
(* and hands them to moment's forgiving parser, so they are modelled as   *)
(* sequences of one-character strings, compared by character code.        *)
(* Amounts are integers counting hundredths of the currency unit.         *)
(***************************************************************************)
EXTENDS Integers, Sequences, FiniteSets, TLC

(***************************************************************************)
(* Strings                                                                 *)
(***************************************************************************)

\* The UTF-16 code unit of a character: what JavaScript's string comparison
\* (and the store's collation of string fields) orders by.
Code(c) ==
    CASE c = " " -> 32 [] c = "-" -> 45
      [] c = "0" -> 48 [] c = "1" -> 49 [] c = "2" -> 50 [] c = "3" -> 51
      [] c = "4" -> 52 [] c = "5" -> 53 [] c = "6" -> 54 [] c = "7" -> 55
      [] c = "8" -> 56 [] c = "9" -> 57

Min(a, b) == IF a <= b THEN a ELSE b

\* a <= b as strings: equal up to the end of a, or smaller at the first
\* position where they differ.
StrLe(a, b) ==
    \/ /\ Len(a) <= Len(b)
       /\ \A i \in 1..Len(a) : a[i] = b[i]
    \/ \E i \in 1..Min(Len(a), Len(b)) :
          /\ \A j \in 1..(i - 1) : a[j] = b[j]
          /\ Code(a[i]) < Code(b[i])

\* s.substr(0, n)
Substr0(s, n) == SubSeq(s, 1, Min(n, Len(s)))

\* name.trim(): the only strings of the model with white space are the
\* blank ones.
Trim(s) == IF s = " " THEN "" ELSE s

(***************************************************************************)
(* moment(string, format).isValid(), non-strict: each token of the format  *)
(* takes the first match of its pattern in what is left of the input      *)
(* (YYYY: one to four digits, MM and DD: one or two digits, "-": itself), *)
(* the text skipped and the text left over are ignored, and the result is *)
(* valid when something was parsed and no field overflows.                *)
(***************************************************************************)
IsDigit(c) == c \in {"0", "1", "2", "3", "4", "5", "6", "7", "8", "9"}

RECURSIVE ToInt(_)
ToInt(s) ==
    IF Len(s) = 0 THEN 0
    ELSE 10 * ToInt(SubSeq(s, 1, Len(s) - 1)) + (Code(s[Len(s)]) - 48)

\* The first match of /\d{1,max}/ in s.
MatchDigits(s, max) ==
    IF \A i \in 1..Len(s) : ~IsDigit(s[i])
    THEN [found |-> FALSE, text |-> <<>>, rest |-> s]
    ELSE LET p == CHOOSE i \in 1..Len(s) :
                     IsDigit(s[i]) /\ \A j \in 1..(i - 1) : ~IsDigit(s[j])
             n == CHOOSE k \in 1..max :
                     /\ p + k - 1 <= Len(s)
                     /\ \A j \in p..(p + k - 1) : IsDigit(s[j])
                     /\ \/ k = max
                        \/ p + k > Len(s)
                        \/ ~IsDigit(s[p + k])
         IN  [found |-> TRUE,
              text  |-> SubSeq(s, p, p + n - 1),
              rest  |-> SubSeq(s, p + n, Len(s))]

\* What is left of s after the first occurrence of the literal c, if any.
SkipLiteral(s, c) ==
    IF \A i \in 1..Len(s) : s[i] # c THEN s
    ELSE LET p == CHOOSE i \in 1..Len(s) :
                     s[i] = c /\ \A j \in 1..(i - 1) : s[j] # c
         IN  SubSeq(s, p + 1, Len(s))

ParseYear(text) ==
    IF Len(text) = 2
    THEN ToInt(text) + (IF ToInt(text) > 68 THEN 1900 ELSE 2000)
    ELSE ToInt(text)

IsLeapYear(y) == (y % 4 = 0 /\ y % 100 # 0) \/ y % 400 = 0

DaysInMonth(y, m) ==
    IF m = 2 THEN (IF IsLeapYear(y) THEN 29 ELSE 28)
    ELSE IF m \in {4, 6, 9, 11} THEN 30 ELSE 31

\* moment(s, 'YYYY-MM').isValid()
IsValidMonth(s) ==
    LET y == MatchDigits(s, 4)
        m == MatchDigits(SkipLiteral(y.rest, "-"), 2)
    IN  /\ y.found
        /\ m.found => ToInt(m.text) \in 1..12

\* moment(s, 'YYYY-MM-DD').isValid()
IsValidDate(s) ==
    LET y == MatchDigits(s, 4)
        m == MatchDigits(SkipLiteral(y.rest, "-"), 2)
        d == MatchDigits(SkipLiteral(m.rest, "-"), 2)
        month == IF m.found THEN ToInt(m.text) ELSE 1
    IN  /\ y.found
        /\ m.found => ToInt(m.text) \in 1..12
        /\ (d.found /\ month \in 1..12) =>
               ToInt(d.text) \in 1..DaysInMonth(ParseYear(y.text), month)

(***************************************************************************)
(* The clock: moment().format(...)                                         *)
(***************************************************************************)
Today == <<"2", "0", "2", "4", "-", "0", "5", "-", "1", "0">>

CurrentMonth == Substr0(Today, 7)

\* The character of a digit.
Digit(n) ==
    CASE n = 0 -> "0" [] n = 1 -> "1" [] n = 2 -> "2" [] n = 3 -> "3"
      [] n = 4 -> "4" [] n = 5 -> "5" [] n = 6 -> "6" [] n = 7 -> "7"
      [] n = 8 -> "8" [] n = 9 -> "9"

\* moment().add(n, 'month').format('YYYY-MM'), from the month of the clock.
AddMonths(month, n) ==
    LET months == 12 * ToInt(SubSeq(month, 1, 4))
                      + (ToInt(SubSeq(month, 6, 7)) - 1) + n
        y == months \div 12
        m == (months % 12) + 1
    IN  <<Digit(y \div 1000), Digit((y \div 100) % 10), Digit((y \div 10) % 10),
          Digit(y % 10), "-", Digit(m \div 10), Digit(m % 10)>>

NextMonth == AddMonths(CurrentMonth, 1)

PreviousMonth == AddMonths(CurrentMonth, 0 - 1)


(***************************************************************************)
(* Bounds and inputs                                                       *)
(***************************************************************************)

\* Ids the store hands out before the model stops inserting.
MaxIds == 3

\* Connections DB.connect opens in a run, handlers of the layout running at
\* a time, and connects that fail in a run.
MaxConns == 3

MaxTasks == 2

MaxFailures == 1

\* Reload timers that are pending at a time before the model stops
\* scheduling.
MaxTimers == 2

\* Not-a-number, as an amount: no number the inputs otherwise use.
NaN == -1

\* budget.id of a budget that is not stored yet / expense.id likewise; the
\* stored ids are 1, 2, ... (`${Date.now()}:${Math.random()}`: fresh).
newBudget == 0

newExpense == 0

DefaultBudgetValue == 10000

Month_2024_05 == <<"2", "0", "2", "4", "-", "0", "5">>

Month_2024_06 == <<"2", "0", "2", "4", "-", "0", "6">>

\* A month before the range exportAllData asks for.
Month_1999_12 == <<"1", "9", "9", "9", "-", "1", "2">>

Date_2024_05_10 == <<"2", "0", "2", "4", "-", "0", "5", "-", "1", "0">>

Date_2024_06_10 == <<"2", "0", "2", "4", "-", "0", "6", "-", "1", "0">>

\* A date moment accepts although its day has one digit.
Date_2024_05_4 == <<"2", "0", "2", "4", "-", "0", "5", "-", "4">>

\* A string moment rejects: the code replaces it by the current month / day.
NoDate == <<>>

InputIds == 1..MaxIds

\* Budgets handed to saveBudget: every combination of the valid fields, and
\* one budget for each validation rule.
BudgetInputs ==
    [name : {"Food", "Misc"}, month : {Month_2024_05, Month_2024_06},
     value : {1}]
    \cup {[name |-> "Food", month |-> NoDate, value |-> 1],
          [name |-> "Food", month |-> Month_1999_12, value |-> 1],
          [name |-> "Total", month |-> Month_2024_05, value |-> 1],
          [name |-> "Total", month |-> NoDate, value |-> 0],
          [name |-> " ", month |-> Month_2024_05, value |-> 1],
          [name |-> "Food", month |-> Month_2024_05, value |-> 0],
          [name |-> "Food", month |-> Month_2024_05, value |-> NaN]}

\* Expenses handed to saveExpense, likewise.
ExpenseInputs ==
    [cost : {1}, description : {"lunch"}, budget : {"", "Misc", "Food"},
     date : {Date_2024_05_10, Date_2024_06_10, Date_2024_05_4}]
    \cup {[cost |-> 1, description |-> "gas", budget |-> "",
           date |-> Date_2024_05_10],
          [cost |-> 1, description |-> "lunch", budget |-> "",
           date |-> NoDate],
          [cost |-> 1, description |-> " ", budget |-> "Food",
           date |-> Date_2024_05_10],
          [cost |-> 0, description |-> "lunch", budget |-> "Food",
           date |-> Date_2024_05_10],
          [cost |-> NaN, description |-> "lunch", budget |-> "Food",
           date |-> Date_2024_05_10],
          [cost |-> 1, description |-> "lunch", budget |-> "Total",
           date |-> Date_2024_05_10]}

MonthInputs == {Month_2024_05, Month_2024_06}

\* The new budgets and expenses a store is filled with before it is exported,
\* imported or deleted: one of the budgets is older than what is exported.
NewBudgetInputs ==
    {[name |-> "Food", month |-> Month_2024_05, value |-> 1],
     [name |-> "Misc", month |-> Month_2024_06, value |-> 1],
     [name |-> "Food", month |-> Month_1999_12, value |-> 1]}

NewExpenseInputs ==
    {[cost |-> 1, description |-> "lunch", budget |-> "Food",
      date |-> Date_2024_05_10],
     [cost |-> 1, description |-> "lunch", budget |-> "",
      date |-> Date_2024_06_10],
     [cost |-> 1, description |-> "gas", budget |-> "Misc",
      date |-> Date_2024_05_4]}

\* The values given to the setting 'syncToken'.
SyncTokenInputs == {"", "https://remote.example/db"}

\* The times moment().format('YYYY-MM-DD HH:mm:ss') gives a sync event.
Timestamps == {"2024-05-10 12:00:00", "2024-05-10 12:01:00"}

(***************************************************************************)
(* State                                                                   *)
(***************************************************************************)
VARIABLES
    budgets,    \* the budgets collection: records [id, name, month, value]
    expenses,   \* the expenses collection: [id, cost, description, budget, date]
    nextId,     \* the next id the store generates
    collections,\* whether the connection has its two collections
    syncToken,  \* the setting 'syncToken': the remote's URL, "" for none
    replicating,\* whether the collections replicate to the remote
    remote,     \* the ids of the documents the remote store holds
    reachable,  \* whether the remote store answers
    lastSyncDate,\* the setting 'lastSyncDate', "" when never written
    lastOp,     \* the call that has not returned yet: its name, argument,
                \* error and result, and the stores before it
    conns,      \* the connections DB.connect has opened for the layout
    sharedDb,   \* sharedOptions.db: a connection, 0 for null
    thisDb,     \* this.db of the layout: a connection, 0 for null
    tasks,      \* the handlers of the layout that run, each where it awaits
    failures,   \* how many connects have failed
    timers,     \* the reload timers loadData has scheduled that are pending
    reloadTimeout,\* this.reloadTimeout: the pending timer it names, 0 when
                \* it is null or names a timer that was cleared or has fired
    monthInView \* state.monthInView of the layout

vars == <<budgets, expenses, nextId, collections, syncToken, replicating,
          remote, reachable, lastSyncDate, lastOp, conns, sharedDb, thisDb,
          tasks, failures, timers, reloadTimeout, monthInView>>

layout ==
    <<conns, sharedDb, thisDb, tasks, failures, timers, reloadTimeout,
      monthInView>>

sync == <<collections, syncToken, replicating, remote, reachable,
          lastSyncDate>>

Store == [budgets |-> budgets, expenses |-> expenses]

(***************************************************************************)
(* Queries                                                                 *)
(***************************************************************************)

\* .where('date').gte(`${month}-01`).lte(`${month}-31`)
InMonthRange(date, month) ==
    /\ StrLe(month \o <<"-", "0", "1">>, date)
    /\ StrLe(date, month \o <<"-", "3", "1">>)

\* expense.date.substr(0, 7)
ExpenseMonth(date) == Substr0(date, 7)

\* db.budgets.findOne().where('id').eq(id)
BudgetsById(bs, id) == {b \in bs : b.id = id}

\* db.expenses.findOne().where('id').eq(id)
ExpensesById(es, id) == {e \in es : e.id = id}

\* saveBudget's uniqueness query: month, name, and not this id.
DuplicateBudgets(bs, budget, month) ==
    {d \in bs : d.month = month /\ d.name = budget.name /\ d.id # budget.id}

\* The expenses of a month attributed to a budget name (saveBudget's cascade
\* and deleteBudget's guard run the same query).
MatchingExpenses(es, month, name) ==
    {e \in es : InMonthRange(e.date, month) /\ e.budget = name}

\* db.budgets.find().where('month').eq(month).where('name').eq(name)
MatchingBudgets(bs, month, name) ==
    {b \in bs : b.month = month /\ b.name = name}

\* The test with < for <=.
LeqZeroOrNaN_Strict(v) == (v # NaN /\ v < 0) \/ v = NaN

\* value <= 0 || Number.isNaN(value)
LeqZeroOrNaN(v) == (v # NaN /\ v <= 0) \/ v = NaN

(***************************************************************************)
(* saveBudget                                                              *)
(***************************************************************************)
Outcome(err, bs, es, nid) ==
    [err |-> err, budgets |-> bs, expenses |-> es, nextId |-> nid]

\* budget.month after the normalisation of line 199.
NormalMonth(month) == IF IsValidMonth(month) THEN month ELSE CurrentMonth

\* saveBudget without its test of the name 'Total'.
SaveBudgetError_AllowsTotal(bs, budget) ==
    IF Trim(budget.name) = "" THEN "name"
    ELSE IF LeqZeroOrNaN(budget.value) THEN "value"
    ELSE IF DuplicateBudgets(bs, budget, NormalMonth(budget.month)) # {}
         THEN "duplicate"
    ELSE IF budget.id # newBudget /\ BudgetsById(bs, budget.id) = {}
         THEN "notfound"
    ELSE ""

\* saveBudget without its test of the value.
SaveBudgetError_AllowsAnyValue(bs, budget) ==
    IF budget.name = "Total" THEN "total"
    ELSE IF Trim(budget.name) = "" THEN "name"
    ELSE IF DuplicateBudgets(bs, budget, NormalMonth(budget.month)) # {}
         THEN "duplicate"
    ELSE IF budget.id # newBudget /\ BudgetsById(bs, budget.id) = {}
         THEN "notfound"
    ELSE ""

\* The error saveBudget throws before it writes, "" when it throws none.
SaveBudgetError(bs, budget) ==
    IF budget.name = "Total" THEN "total"
    ELSE IF Trim(budget.name) = "" THEN "name"
    ELSE IF LeqZeroOrNaN(budget.value) THEN "value"
    ELSE IF DuplicateBudgets(bs, budget, NormalMonth(budget.month)) # {}
         THEN "duplicate"
    ELSE IF budget.id # newBudget /\ BudgetsById(bs, budget.id) = {}
         THEN "notfound"
    ELSE ""

\* es with the budget of the expenses `ids` set to name.
RenameExpenses(es, ids, name) ==
    {IF e.id \in ids THEN [e EXCEPT !.budget = name] ELSE e : e \in es}

\* An update that writes the month of the input as well.
UpdatedBudget_TakesMonth(existing, budget) ==
    [existing EXCEPT !.name = budget.name, !.value = budget.value,
                     !.month = NormalMonth(budget.month)]

\* existingBudget.update({$set: {name, value}})
UpdatedBudget(existing, budget) ==
    [existing EXCEPT !.name = budget.name, !.value = budget.value]

\* The expenses the cascade rewrites: none when the name did not change.
CascadeIds(es, existing, budget) ==
    IF existing.name # budget.name
    THEN {e.id : e \in MatchingExpenses(es, existing.month, existing.name)}
    ELSE {}

DoSaveBudget(bs, es, nid, budget) ==
    LET err == SaveBudgetError(bs, budget)
    IN  IF err # "" THEN Outcome(err, bs, es, nid)
        ELSE IF budget.id = newBudget
        THEN Outcome("", bs \cup {[id |-> nid, name |-> budget.name,
                                   month |-> NormalMonth(budget.month),
                                   value |-> budget.value]}, es, nid + 1)
        ELSE LET existing == CHOOSE b \in bs : b.id = budget.id
             IN  Outcome("",
                         (bs \ {existing}) \cup {UpdatedBudget(existing, budget)},
                         RenameExpenses(es, CascadeIds(es, existing, budget),
                                        budget.name),
                         nid)

(***************************************************************************)
(* saveExpense                                                             *)
(***************************************************************************)

\* expense.date after the normalisation of line 272.
NormalDate(date) == IF IsValidDate(date) THEN date ELSE Today

\* The budgets findOne().where('description').eq(...) may hand to the
\* auto-categorisation: the budget of any stored expense with the
\* description, "" when there is none. Only a new expense with no budget or
\* the budget "Misc" is looked up.
InheritableBudgets(es, expense) ==
    IF (expense.budget = "" \/ expense.budget = "Misc")
       /\ expense.id = newExpense
       /\ \E e \in es : e.description = expense.description
    THEN {e.budget : e \in {x \in es : x.description = expense.description}}
    ELSE {""}

\* saveExpense that never takes the budget looked up.
ResolvedBudget_NeverInherits(expense, found) ==
    IF expense.budget = "" THEN "Misc" ELSE expense.budget

\* expense.budget after lines 276-297, `found` being the budget looked up.
ResolvedBudget(expense, found) ==
    LET inherited == IF found # "" THEN found ELSE expense.budget
    IN  IF inherited = "" THEN "Misc" ELSE inherited

AutoBudget_UnitValue(name, month) ==
    [id |-> newBudget, name |-> name, month |-> month, value |-> 1]

\* The budget saveExpense saves when the expense's month has none of its name.
AutoBudget(name, month) ==
    [id |-> newBudget, name |-> name, month |-> month,
     value |-> DefaultBudgetValue]

DoSaveExpense(bs, es, nid, expense, found) ==
    IF Trim(expense.description) = "" THEN Outcome("description", bs, es, nid)
    ELSE IF LeqZeroOrNaN(expense.cost) THEN Outcome("cost", bs, es, nid)
    ELSE
      LET date   == NormalDate(expense.date)
          name   == ResolvedBudget(expense, found)
          month  == ExpenseMonth(date)
          ensure == IF MatchingBudgets(bs, month, name) = {}
                    THEN DoSaveBudget(bs, es, nid, AutoBudget(name, month))
                    ELSE Outcome("", bs, es, nid)
          doc    == [cost |-> expense.cost, description |-> expense.description,
                     budget |-> name, date |-> date]
      IN  IF ensure.err # "" THEN ensure
          ELSE IF expense.id = newExpense
          THEN Outcome("", ensure.budgets,
                       es \cup {[id |-> ensure.nextId] @@ doc},
                       ensure.nextId + 1)
          ELSE IF ExpensesById(es, expense.id) = {}
          THEN Outcome("notfound", ensure.budgets, es, ensure.nextId)
          ELSE Outcome("", ensure.budgets,
                       {IF e.id = expense.id THEN [id |-> e.id] @@ doc ELSE e :
                           e \in es},
                       ensure.nextId)

(***************************************************************************)
(* deleteBudget, deleteExpense, copyBudgets                                *)
(***************************************************************************)

\* deleteBudget refuses a budget that has expenses, unless it has a
\* duplicate.
DeleteRefused(bs, es, existing) ==
    /\ MatchingExpenses(es, existing.month, existing.name) # {}
    /\ Cardinality(MatchingBudgets(bs, existing.month, existing.name)) = 1

DoDeleteBudget(bs, es, nid, budgetId) ==
    IF BudgetsById(bs, budgetId) = {} THEN Outcome("notfound", bs, es, nid)
    ELSE LET existing == CHOOSE b \in bs : b.id = budgetId
         IN  IF DeleteRefused(bs, es, existing)
             THEN Outcome("referenced", bs, es, nid)
             ELSE Outcome("", bs \ {existing}, es, nid)

DoDeleteExpense(bs, es, nid, expenseId) ==
    IF ExpensesById(es, expenseId) = {} THEN Outcome("notfound", bs, es, nid)
    ELSE Outcome("", bs, {e \in es : e.id # expenseId}, nid)

\* DB.fetchBudgets(db, month), as a set.
FetchBudgets(bs, month) == {b \in bs : b.month = month}

DestinationBudgets_KeepsMonth(original, fresh, destinationMonth) ==
    {[b EXCEPT !.id = fresh[b.id]] : b \in original}

\* The copies copyBudgets inserts: one per budget of the original month, each
\* with an id of its own (`fresh` says which) and the destination month.
DestinationBudgets(original, fresh, destinationMonth) ==
    {[b EXCEPT !.id = fresh[b.id], !.month = destinationMonth] : b \in original}

DoCopyBudgets(bs, es, nid, originalMonth, destinationMonth) ==
    LET original == FetchBudgets(bs, originalMonth)
        n        == Cardinality(original)
        fresh    == CHOOSE f \in [{b.id : b \in original} -> nid..(nid + n - 1)] :
                        \A x, y \in DOMAIN f : x # y => f[x] # f[y]
    IN  Outcome("", bs \cup DestinationBudgets(original, fresh, destinationMonth),
                es, nid + n)

(***************************************************************************)
(* exportAllData, importData, deleteAllData                                *)
(***************************************************************************)
\* A store with nothing in it.
NoDocuments == [budgets |-> {}, expenses |-> {}]

InRange(s, lo, hi) == StrLe(lo, s) /\ StrLe(s, hi)

\* .where('month').gte('2000-01').lte('2100-12')
ExportedBudgets(bs) ==
    {b \in bs : InRange(b.month, <<"2", "0", "0", "0", "-", "0", "1">>,
                                 <<"2", "1", "0", "0", "-", "1", "2">>)}

\* .where('date').gte('2000-01-01').lte('2100-12-31')
ExportedExpenses(es) ==
    {e \in es :
        InRange(e.date, <<"2", "0", "0", "0", "-", "0", "1", "-", "0", "1">>,
                        <<"2", "1", "0", "0", "-", "1", "2", "-", "3", "1">>)}

\* The arrays .map(...).sort(sortByName) and .sort(sortByDate) may return for
\* the documents S: every one of S once, in the order the comparator of
\* ./utils decides, which is any order here.
Sorted(S) ==
    {f \in [1..Cardinality(S) -> S] :
        \A i, j \in DOMAIN f : i # j => f[i] # f[j]}

\* deleteAllData that leaves the remote store alone.
ErasedRemote_Never(token, rem) == rem

\* The remote store after deleteAllData: erased when a syncToken is set.
ErasedRemote(token, rem) == IF Len(token) > 0 THEN NoDocuments ELSE rem

\* The connection and the remote store, as a bulk call finds and leaves them.
Stores ==
    [budgets |-> budgets, expenses |-> expenses, collections |-> collections,
     replicating |-> replicating, remote |-> remote, reachable |-> reachable]

BulkOutcome(err, st) == [err |-> err] @@ st

\* Removing a collection ends its replication. With a syncToken set and the
\* remote store not answering, remoteDb.erase() rejects, after the local
\* collections are removed.
DoDeleteAllData(st, token) ==
    IF ~st.collections THEN BulkOutcome("nocollection", st)
    ELSE LET removed == [st EXCEPT !.budgets = {}, !.expenses = {},
                                   !.collections = FALSE,
                                   !.replicating = FALSE]
         IN  IF Len(token) > 0 /\ ~st.reachable
             THEN BulkOutcome("remote", removed)
             ELSE BulkOutcome("", [removed EXCEPT
                                     !.remote = ErasedRemote(token, st.remote)])

\* collection.bulkInsert(docs): a document whose id is stored is refused, and
\* the others are inserted.
BulkInsert(stored, docs) ==
    stored \cup {docs[i] : i \in {j \in DOMAIN docs :
                                     \A d \in stored : d.id # docs[j].id}}

\* importData that inserts into the store as it is, whatever replaceData says.
DoImportData_NeverReplaces(st, token, replaceData, bs, es) ==
    IF ~st.collections THEN BulkOutcome("nocollection", st)
    ELSE [BulkOutcome("", st) EXCEPT !.budgets = BulkInsert(st.budgets, bs),
                                     !.expenses = BulkInsert(st.expenses, es)]

DoImportData(st, token, replaceData, bs, es) ==
    LET wiped == IF replaceData THEN DoDeleteAllData(st, token)
                 ELSE BulkOutcome("", st)
    IN  IF wiped.err # "" THEN wiped
        ELSE IF ~replaceData /\ ~st.collections
        THEN BulkOutcome("nocollection", st)
        ELSE [wiped EXCEPT !.collections = TRUE,
                           !.budgets = BulkInsert(wiped.budgets, bs),
                           !.expenses = BulkInsert(wiped.expenses, es)]

(***************************************************************************)
(* The layout: its connection and its handlers                             *)
(***************************************************************************)
Connections == 1..MaxConns

Tasks == 1..MaxTasks

Timers == 1..MaxTimers

\* A connection DB.connect has not opened yet.
Unopened ==
    [opened |-> FALSE, live |-> FALSE, subscribed |-> FALSE,
     replicating |-> FALSE, token |-> ""]

\* The connection DB.connect returns when the syncToken it has read is
\* token: both collections replicate when the token is not empty.
OpenedConnection(token) ==
    [opened |-> TRUE, live |-> TRUE, subscribed |-> TRUE,
     replicating |-> Len(token) > 0, token |-> token]

\* The handlers: loadData(), loadData({forceReload: true}) (as exportAllData
\* and deleteAllData call it first), saveSetting, and a save or delete.
Handlers == {"loadData", "reload", "saveSetting", "save"}

\* No handler runs.
NoTask ==
    [kind |-> "none", pc |-> "idle", stage |-> 0, value |-> "", token |-> "",
     target |-> 0, held |-> 0, failed |-> 0, reloads |-> FALSE,
     result |-> "", monthToLoad |-> <<>>, month |-> <<>>,
     isComingFromEmptyState |-> FALSE]

\* ensureDBConnection that reloads only when told to.
NeedsReload_OnlyForced(forceReload, db) == forceReload

\* Whether ensureDBConnection reloads: when told to, or when this.db is no
\* usable connection.
NeedsReload(forceReload, db) == forceReload \/ db = 0

(***************************************************************************)
(* The calls, each run to completion                                       *)
(***************************************************************************)
NoCall ==
    [op |-> "idle", arg |-> <<>>, err |-> "", result |-> <<>>, pre |-> <<>>,
     preRemote |-> <<>>, before |-> <<>>]

\* The connection, the remote store and the settings, as a call finds them.
Before ==
    [stores |-> Stores, nextId |-> nextId, syncToken |-> syncToken,
     lastSyncDate |-> lastSyncDate]

Called(op, arg, err, result) ==
    [op |-> op, arg |-> arg, err |-> err, result |-> result, pre |-> Store,
     preRemote |-> remote, before |-> Before]

Init ==
    /\ budgets = {}
    /\ expenses = {}
    /\ nextId = 1
    /\ collections = TRUE
    /\ syncToken = ""
    /\ replicating = FALSE
    /\ remote = NoDocuments
    /\ reachable = TRUE
    /\ lastSyncDate = ""
    /\ lastOp = NoCall
    /\ conns = [c \in Connections |-> Unopened]
    /\ sharedDb = 0
    /\ thisDb = 0
    /\ tasks = [t \in Tasks |-> NoTask]
    /\ failures = 0
    /\ timers = {}
    /\ reloadTimeout = 0
    /\ monthInView = CurrentMonth

\* The outcome of a call on this connection: r when the collections are
\* there, or when r is an error of `early`, thrown before the call reads
\* db.budgets or db.expenses; the TypeError of that read otherwise.
OnStore(early, r) ==
    IF collections \/ r.err \in early THEN r
    ELSE Outcome("nocollection", budgets, expenses, nextId)

\* The caller issues op(arg) when its previous call has returned; the store
\* takes the outcome r.
Apply(op, arg, r) ==
    /\ lastOp = NoCall
    /\ r.nextId <= MaxIds + 1
    /\ budgets' = r.budgets
    /\ expenses' = r.expenses
    /\ nextId' = r.nextId
    /\ lastOp' = Called(op, arg, r.err, <<>>)
    /\ UNCHANGED <<sync, layout>>

\* The call returns to its caller (true, or false after the error's alert).
Return ==
    /\ lastOp # NoCall
    /\ lastOp' = NoCall
    /\ UNCHANGED <<layout, budgets, expenses, nextId, sync>>

\* DB.saveBudget(budget), the budget drawn from inputs and its id from ids.
SaveBudgetOf(ids, inputs) ==
    \E id \in ids, b \in inputs :
        LET budget == [id |-> id] @@ b
        IN  Apply("saveBudget", budget,
                  OnStore({"total", "name", "value"},
                          DoSaveBudget(budgets, expenses, nextId, budget)))

SaveBudget == SaveBudgetOf({newBudget} \cup InputIds, BudgetInputs)

\* DB.saveExpense(expense), likewise.
SaveExpenseOf(ids, inputs) ==
    \E id \in ids, e \in inputs :
        LET expense == [id |-> id] @@ e
        IN  \E found \in InheritableBudgets(expenses, expense) :
                Apply("saveExpense", expense,
                      OnStore({"description", "cost"},
                              DoSaveExpense(budgets, expenses, nextId, expense,
                                            found)))

SaveExpense == SaveExpenseOf({newExpense} \cup InputIds, ExpenseInputs)

\* The saves that fill a store to be moved: new documents only.
InsertBudget == SaveBudgetOf({newBudget}, NewBudgetInputs)

InsertExpense == SaveExpenseOf({newExpense}, NewExpenseInputs)

DeleteBudget ==
    \E id \in InputIds :
        Apply("deleteBudget", [id |-> id],
              OnStore({}, DoDeleteBudget(budgets, expenses, nextId, id)))

DeleteExpense ==
    \E id \in InputIds :
        Apply("deleteExpense", [id |-> id],
              OnStore({}, DoDeleteExpense(budgets, expenses, nextId, id)))

CopyBudgets ==
    \E o \in MonthInputs, d \in MonthInputs :
        Apply("copyBudgets", [originalMonth |-> o, destinationMonth |-> d],
              OnStore({}, DoCopyBudgets(budgets, expenses, nextId, o, d)))

\* A renaming saveBudget whose store fails under the cascade: the budget is
\* updated, the expenses `done` are rewritten, and the update of the next one
\* rejects.
SaveBudgetInterrupted ==
    \E id \in InputIds, b \in BudgetInputs :
        LET budget == [id |-> id] @@ b
        IN  /\ lastOp = NoCall
            /\ collections
            /\ SaveBudgetError(budgets, budget) = ""
            /\ LET existing == CHOOSE x \in budgets : x.id = id
                   matching == CascadeIds(expenses, existing, budget)
               IN  \E done \in (SUBSET matching) \ {matching} :
                       /\ budgets' = (budgets \ {existing})
                                         \cup {UpdatedBudget(existing, budget)}
                       /\ expenses' = RenameExpenses(expenses, done, budget.name)
                       /\ nextId' = nextId
                       /\ lastOp' = Called("saveBudget", budget, "storage",
                                           <<>>)
                       /\ UNCHANGED <<sync, layout>>

\* The caller issues the interrupted saveBudget again; lastOp keeps the store
\* of before the interrupted call.
RetrySaveBudget ==
    /\ lastOp.op = "saveBudget"
    /\ lastOp.err = "storage"
    /\ LET r == DoSaveBudget(budgets, expenses, nextId, lastOp.arg)
       IN  /\ budgets' = r.budgets
           /\ expenses' = r.expenses
           /\ nextId' = r.nextId
           /\ lastOp' = [lastOp EXCEPT !.op = "retrySaveBudget",
                                       !.err = r.err]
           /\ UNCHANGED <<sync, layout>>

\* The stores take the outcome r of the bulk call op(arg).
ApplyBulk(op, arg, r) ==
    /\ budgets' = r.budgets
    /\ expenses' = r.expenses
    /\ collections' = r.collections
    /\ replicating' = r.replicating
    /\ remote' = r.remote
    /\ lastOp' = Called(op, arg, r.err, <<>>)
    /\ UNCHANGED <<layout, nextId, syncToken, reachable, lastSyncDate>>

ExportAllData ==
    /\ lastOp = NoCall
    /\ IF collections
       THEN \E bs \in Sorted(ExportedBudgets(budgets)),
               es \in Sorted(ExportedExpenses(expenses)) :
                lastOp' = Called("exportAllData", <<>>, "",
                                 [budgets |-> bs, expenses |-> es])
       ELSE lastOp' = Called("exportAllData", <<>>, "nocollection", <<>>)
    /\ UNCHANGED <<layout, budgets, expenses, nextId, sync>>

\* The caller imports what exportAllData has just handed it.
ImportData ==
    /\ lastOp.op = "exportAllData"
    /\ lastOp.err = ""
    /\ \E replaceData \in BOOLEAN :
          ApplyBulk("importData",
                    [replaceData |-> replaceData,
                     budgets |-> lastOp.result.budgets,
                     expenses |-> lastOp.result.expenses],
                    DoImportData(Stores, syncToken, replaceData,
                                 lastOp.result.budgets, lastOp.result.expenses))

DeleteAllData ==
    /\ lastOp = NoCall
    /\ ApplyBulk("deleteAllData", <<>>, DoDeleteAllData(Stores, syncToken))

\* DB.connect(): the collections are there again, and they replicate when a
\* syncToken is set.
Connect ==
    /\ lastOp = NoCall
    /\ collections' = TRUE
    /\ replicating' = (Len(syncToken) > 0)
    /\ lastOp' = Called("connect", <<>>, "", <<>>)
    /\ UNCHANGED <<layout, budgets, expenses, nextId, syncToken, remote, reachable,
                   lastSyncDate>>

SaveSetting ==
    \E value \in SyncTokenInputs :
        /\ lastOp = NoCall
        /\ syncToken' = value
        /\ lastOp' = Called("saveSetting",
                            [name |-> "syncToken", value |-> value], "", <<>>)
        /\ UNCHANGED <<layout, budgets, expenses, nextId, collections, replicating,
                       remote, reachable, lastSyncDate>>

\* The live replication brings the remote store up to the local one: the
\* remote store is the ids of the documents it holds, and only the local
\* writes travel (no other device writes to it).
Replicate ==
    /\ lastOp = NoCall
    /\ replicating
    /\ reachable
    /\ remote' = [budgets |-> {b.id : b \in budgets},
                  expenses |-> {e.id : e \in expenses}]
    /\ remote' # remote
    /\ UNCHANGED <<layout, budgets, expenses, nextId, collections, syncToken,
                   replicating, reachable, lastSyncDate, lastOp>>

\* The remote store stops answering, or answers again.
RemoteChanges ==
    /\ lastOp = NoCall
    /\ reachable' = ~reachable
    /\ UNCHANGED <<layout, budgets, expenses, nextId, collections, syncToken,
                   replicating, remote, lastSyncDate, lastOp>>

\* An updateSyncDate that writes the empty value for a dead replication.
UpdateSyncDate_WritesEmpty(alive, now, stored) == IF alive THEN now ELSE ""

\* The setting 'lastSyncDate' after DB.updateSyncDate(alive) at time now.
UpdateSyncDate(alive, now, stored) == IF alive THEN now ELSE stored

\* A replication of the connection emits on alive$ (alive) or on change$
\* (change.ok), and the subscriber calls DB.updateSyncDate.
SyncEvent ==
    \E source \in {"alive", "change"}, alive \in BOOLEAN, now \in Timestamps :
        /\ lastOp = NoCall
        /\ replicating
        /\ lastSyncDate' = UpdateSyncDate(alive, now, lastSyncDate)
        /\ lastOp' = Called("updateSyncDate",
                            [source |-> source, alive |-> alive], "", <<>>)
        /\ UNCHANGED <<layout, budgets, expenses, nextId, collections, syncToken,
                       replicating, remote, reachable>>

\* The stores and the calls on them, which the handlers leave alone here.
database ==
    <<budgets, expenses, nextId, collections, replicating, remote, reachable,
      lastSyncDate, lastOp>>

\* The reload timer of the layout.
reloadTimer == <<timers, reloadTimeout>>

\* The handler t runs ensureDBConnection(forceReload) up to its first
\* await: of cleanupDB's db.destroy() after the unsubscribing, of cleanupDB
\* with nothing to clean, or of ensureDBConnection itself.
EnterEnsure(t, task, forceReload) ==
    LET reloads == NeedsReload(forceReload, thisDb)
        entered == [task EXCEPT !.held = thisDb, !.failed = failures,
                                !.reloads = reloads]
    IN  IF ~reloads
        THEN /\ tasks' = [tasks EXCEPT ![t] = [entered EXCEPT !.pc = "ensured"]]
             /\ UNCHANGED conns
        ELSE IF sharedDb # 0
        THEN /\ conns' = [conns EXCEPT ![sharedDb].subscribed = FALSE]
             /\ tasks' = [tasks EXCEPT ![t] =
                             [entered EXCEPT !.pc = "destroying",
                                             !.target = sharedDb]]
        ELSE /\ tasks' = [tasks EXCEPT ![t] = [entered EXCEPT !.pc = "cleaned"]]
             /\ UNCHANGED conns

\* The handler t calls loadData(options) while the timers `pending` are:
\* loadData clears the timer this.reloadTimeout names and runs
\* ensureDBConnection(forceReload) up to its first await. A handler is in
\* stage 2 from then on.
EnterLoadData(t, task, pending, forceReload, monthToLoad, fromEmpty) ==
    /\ timers' = pending \ {reloadTimeout}
    /\ reloadTimeout' = 0
    /\ EnterEnsure(t, [task EXCEPT !.stage = 2,
                                   !.monthToLoad = monthToLoad,
                                   !.isComingFromEmptyState = fromEmpty],
                   forceReload)

\* A handler, one of `kinds`, is called.
StartOf(t, kinds) ==
    \E kind \in kinds, value \in SyncTokenInputs :
        LET task == [NoTask EXCEPT !.kind = kind, !.stage = 1,
                                   !.value = value]
        IN  /\ tasks[t] = NoTask
            /\ kind # "saveSetting" => value = ""
            /\ IF kind \in {"loadData", "reload"}
               THEN EnterLoadData(t, task, timers, kind = "reload", <<>>, FALSE)
               ELSE /\ EnterEnsure(t, task, FALSE)
                    /\ UNCHANGED reloadTimer
            /\ UNCHANGED <<sharedDb, thisDb, failures, syncToken, monthInView>>
            /\ UNCHANGED database

Start(t) == StartOf(t, Handlers)

\* loadData() is called, as componentDidMount and the views call it.
LoadData(t) == StartOf(t, {"loadData"})

\* changeMonthInView(newMonth), for a month that is not refused: the month in
\* view is set and loadData({monthToLoad: newMonth}) is called.
ChangeMonthInView(t) ==
    \E newMonth \in {CurrentMonth, NextMonth} :
        /\ tasks[t] = NoTask
        /\ StrLe(newMonth, NextMonth)
        /\ monthInView' = newMonth
        /\ EnterLoadData(t, [NoTask EXCEPT !.kind = "changeMonthInView"],
                         timers, FALSE, newMonth, FALSE)
        /\ UNCHANGED <<sharedDb, thisDb, failures, syncToken>>
        /\ UNCHANGED database

\* A reload timer fires and calls loadData().
TimerFires(t) ==
    \E id \in timers :
        /\ tasks[t] = NoTask
        /\ EnterLoadData(t, [NoTask EXCEPT !.kind = "loadData"],
                         timers \ {id}, FALSE, <<>>, FALSE)
        /\ UNCHANGED <<sharedDb, thisDb, failures, syncToken, monthInView>>
        /\ UNCHANGED database

\* cleanupDB after db.destroy(): the connection is closed, and
\* sharedOptions.db and this.db are null.
Destroyed(t) ==
    /\ tasks[t].pc = "destroying"
    /\ conns' = [conns EXCEPT ![tasks[t].target].live = FALSE,
                              ![tasks[t].target].replicating = FALSE]
    /\ sharedDb' = 0
    /\ thisDb' = 0
    /\ tasks' = [tasks EXCEPT ![t].pc = "cleaned", ![t].target = 0]
    /\ UNCHANGED <<failures, syncToken, reloadTimer, monthInView>>
    /\ UNCHANGED database

\* ensureDBConnection after cleanupDB: DB.connect() is called, and reads the
\* syncToken, when sharedOptions.db is null.
Cleaned(t) ==
    /\ tasks[t].pc = "cleaned"
    /\ IF sharedDb = 0
       THEN /\ tasks' = [tasks EXCEPT ![t].pc = "connecting",
                                      ![t].token = syncToken]
            /\ UNCHANGED thisDb
       ELSE /\ tasks' = [tasks EXCEPT ![t].pc = "ensured"]
            /\ thisDb' = sharedDb
    /\ UNCHANGED <<conns, sharedDb, failures, syncToken, reloadTimer,
                   monthInView>>
    /\ UNCHANGED database

\* DB.connect() returns a connection.
ConnectSucceeds(t) ==
    /\ tasks[t].pc = "connecting"
    /\ \E c \in Connections :
          /\ ~conns[c].opened
          /\ \A d \in Connections : d < c => conns[d].opened
          /\ conns' = [conns EXCEPT ![c] = OpenedConnection(tasks[t].token)]
          /\ sharedDb' = c
          /\ thisDb' = c
    /\ tasks' = [tasks EXCEPT ![t].pc = "ensured", ![t].token = ""]
    /\ UNCHANGED <<failures, syncToken, reloadTimer, monthInView>>
    /\ UNCHANGED database

\* DB.connect() fails to open the store, and returns null.
ConnectFails(t) ==
    /\ tasks[t].pc = "connecting"
    /\ failures < MaxFailures
    /\ failures' = failures + 1
    /\ sharedDb' = 0
    /\ thisDb' = 0
    /\ tasks' = [tasks EXCEPT ![t].pc = "ensured", ![t].token = ""]
    /\ UNCHANGED <<conns, syncToken, reloadTimer, monthInView>>
    /\ UNCHANGED database

\* The handler t ends by throwing: a handler with a catch returns false,
\* loadData rejects.
Throws(t) == [tasks EXCEPT ![t].pc = "returned", ![t].result = "threw"]

\* The handler goes on after ensureDBConnection. saveSetting writes the
\* setting and calls loadData({forceReload: true}); a save awaits its write,
\* which throws when this.db is null; loadData reads the month in view and
\* calls DB.fetchBudgets, which throws when this.db is null.
Ensured(t) ==
    /\ tasks[t].pc = "ensured"
    /\ IF tasks[t].kind = "saveSetting" /\ tasks[t].stage = 1
       THEN /\ syncToken' = tasks[t].value
            /\ EnterLoadData(t, tasks[t], timers, TRUE, <<>>, FALSE)
       ELSE IF tasks[t].kind = "save" /\ tasks[t].stage = 1 /\ thisDb # 0
       THEN /\ tasks' = [tasks EXCEPT ![t].pc = "writing"]
            /\ UNCHANGED <<conns, syncToken, reloadTimer>>
       ELSE IF tasks[t].stage = 2 /\ thisDb # 0
       THEN /\ tasks' = [tasks EXCEPT
                            ![t].pc = "fetching",
                            ![t].month = IF tasks[t].monthToLoad # <<>>
                                         THEN tasks[t].monthToLoad
                                         ELSE monthInView]
            /\ UNCHANGED <<conns, syncToken, reloadTimer>>
       ELSE /\ tasks' = Throws(t)
            /\ UNCHANGED <<conns, syncToken, reloadTimer>>
    /\ UNCHANGED <<sharedDb, thisDb, failures, monthInView>>
    /\ UNCHANGED database

\* The write of a save is done, and the save calls loadData().
Written(t) ==
    /\ tasks[t].pc = "writing"
    /\ EnterLoadData(t, tasks[t], timers, FALSE, <<>>, FALSE)
    /\ UNCHANGED <<sharedDb, thisDb, failures, syncToken, monthInView>>
    /\ UNCHANGED database

\* The month loadData copies the budgets from, into the month it has loaded.
SeedMonth(month) == IF month = NextMonth THEN CurrentMonth ELSE PreviousMonth

\* Whether loadData seeds the month it has loaded: the month is the next or
\* the current one, no budget of it was fetched, and loadData was not called
\* by the loadData that has just seeded.
Seeds(task, fetched) ==
    /\ Cardinality(fetched) = 0
    /\ ~task.isComingFromEmptyState
    /\ task.month \in {NextMonth, CurrentMonth}

\* loadData has fetched the budgets and then the expenses of its month. It
\* goes on to DB.copyBudgets when it seeds, and otherwise schedules
\* the next reload in this.reloadTimeout, without clearing the timer the
\* field names, and returns. DB.fetchExpenses and DB.copyBudgets throw when
\* this.db is null by now.
Fetched(t) ==
    /\ tasks[t].pc = "fetching"
    /\ IF thisDb = 0
       THEN /\ tasks' = Throws(t)
            /\ UNCHANGED reloadTimer
       ELSE IF Seeds(tasks[t], FetchBudgets(budgets, tasks[t].month))
       THEN /\ tasks' = [tasks EXCEPT ![t].pc = "copying"]
            /\ UNCHANGED reloadTimer
       ELSE \E id \in Timers \ timers :
               /\ \A other \in Timers \ timers : id <= other
               /\ timers' = timers \cup {id}
               /\ reloadTimeout' = id
               /\ tasks' = [tasks EXCEPT ![t].pc = "returned",
                                         ![t].result = "ok"]
    /\ UNCHANGED <<conns, sharedDb, thisDb, failures, syncToken, monthInView>>
    /\ UNCHANGED database

\* DB.copyBudgets has copied the budgets, and loadData calls
\* loadData({monthToLoad, isComingFromEmptyState: true}), whose end is its
\* own.
Copied(t) ==
    LET r == DoCopyBudgets(budgets, expenses, nextId,
                           SeedMonth(tasks[t].month), tasks[t].month)
    IN  /\ tasks[t].pc = "copying"
        /\ r.nextId <= MaxIds + 1
        /\ budgets' = r.budgets
        /\ nextId' = r.nextId
        /\ EnterLoadData(t, tasks[t], timers, FALSE, tasks[t].monthToLoad, TRUE)
        /\ UNCHANGED <<sharedDb, thisDb, failures, monthInView, expenses, sync,
                       lastOp>>

\* The handler has returned.
Returned(t) ==
    /\ tasks[t].pc = "returned"
    /\ tasks' = [tasks EXCEPT ![t] = NoTask]
    /\ UNCHANGED <<conns, sharedDb, thisDb, failures, syncToken, reloadTimer,
                   monthInView>>
    /\ UNCHANGED database

NextLayout ==
    \/ \E t \in Tasks : Start(t)
    \/ \E t \in Tasks : Destroyed(t)
    \/ \E t \in Tasks : Cleaned(t)
    \/ \E t \in Tasks : ConnectSucceeds(t)
    \/ \E t \in Tasks : ConnectFails(t)
    \/ \E t \in Tasks : Ensured(t)
    \/ \E t \in Tasks : Written(t)
    \/ \E t \in Tasks : Fetched(t)
    \/ \E t \in Tasks : Copied(t)
    \/ \E t \in Tasks : Returned(t)

SpecLayout == Init /\ [][NextLayout]_vars

\* The reloads of a layout: loadData called by a view or by the reload
\* timer, and whatever it awaits.
NextReload ==
    \/ \E t \in Tasks : LoadData(t)
    \/ \E t \in Tasks : TimerFires(t)
    \/ \E t \in Tasks : Cleaned(t)
    \/ \E t \in Tasks : ConnectSucceeds(t)
    \/ \E t \in Tasks : ConnectFails(t)
    \/ \E t \in Tasks : Ensured(t)
    \/ \E t \in Tasks : Fetched(t)
    \/ \E t \in Tasks : Copied(t)
    \/ \E t \in Tasks : Returned(t)

SpecReload == Init /\ [][NextReload]_vars

\* A budget of the current month is saved, for the next month to be seeded
\* with.
InsertCurrentBudget ==
    SaveBudgetOf({newBudget},
                 {[name |-> "Food", month |-> CurrentMonth, value |-> 1]})

\* The reloads of a layout whose store holds a budget: loadData called by a
\* view, by a change of the month in view or by the reload timer.
NextSeed ==
    \/ InsertCurrentBudget
    \/ Return
    \/ \E t \in Tasks : LoadData(t)
    \/ \E t \in Tasks : ChangeMonthInView(t)
    \/ \E t \in Tasks : TimerFires(t)
    \/ \E t \in Tasks : Cleaned(t)
    \/ \E t \in Tasks : ConnectSucceeds(t)
    \/ \E t \in Tasks : Ensured(t)
    \/ \E t \in Tasks : Fetched(t)
    \/ \E t \in Tasks : Copied(t)
    \/ \E t \in Tasks : Returned(t)

SpecSeed == Init /\ [][NextSeed]_vars

NextSaves == SaveBudget \/ SaveExpense \/ Return

SpecSaves == Init /\ [][NextSaves]_vars

NextCrud ==
    \/ SaveBudget
    \/ SaveExpense
    \/ DeleteBudget
    \/ DeleteExpense
    \/ CopyBudgets
    \/ Return

SpecCrud == Init /\ [][NextCrud]_vars

Next ==
    \/ SaveBudget
    \/ SaveExpense
    \/ DeleteBudget
    \/ DeleteExpense
    \/ CopyBudgets
    \/ ExportAllData
    \/ ImportData
    \/ DeleteAllData
    \/ Connect
    \/ SaveSetting
    \/ Replicate
    \/ RemoteChanges
    \/ SyncEvent
    \/ Return

Spec == Init /\ [][Next]_vars

\* Saving, and moving the whole store: out, in, away, and to the remote.
NextBulk ==
    \/ InsertBudget
    \/ InsertExpense
    \/ ExportAllData
    \/ ImportData
    \/ DeleteAllData
    \/ Connect
    \/ SaveSetting
    \/ Replicate
    \/ Return

SpecBulk == Init /\ [][NextBulk]_vars

\* Every call that writes, with a remote store that may not answer.
NextRemote ==
    \/ InsertBudget
    \/ InsertExpense
    \/ DeleteBudget
    \/ DeleteExpense
    \/ CopyBudgets
    \/ ExportAllData
    \/ ImportData
    \/ DeleteAllData
    \/ Connect
    \/ SaveSetting
    \/ RemoteChanges
    \/ Return

SpecRemote == Init /\ [][NextRemote]_vars

\* The replications of a connection and what they write to the settings.
NextSync ==
    \/ InsertBudget
    \/ Connect
    \/ SaveSetting
    \/ DeleteAllData
    \/ Replicate
    \/ RemoteChanges
    \/ SyncEvent
    \/ Return

SpecSync == Init /\ [][NextSync]_vars

NextFault == NextCrud \/ SaveBudgetInterrupted \/ RetrySaveBudget

SpecFault == Init /\ [][NextFault]_vars

(***************************************************************************)
(* Properties                                                              *)
(***************************************************************************)
Succeeded(op) == lastOp.op = op /\ lastOp.err = ""

Failed(op) == lastOp.op = op /\ lastOp.err # ""

\* The stored budget / expense a call was about, in the store before it.
BudgetBefore == CHOOSE b \in lastOp.pre.budgets : b.id = lastOp.arg.id

\* An expense is of month M when M is the first seven characters of its date,
\* and of the budget (M, N) when its budget is N as well.
RefersTo(e, month, name) == ExpenseMonth(e.date) = month /\ e.budget = name

\* C1: after a successful saveBudget or saveExpense, in a run of saves from
\* the empty store, no two distinct budgets have the same month and name.
C1_UniqueAfterSave ==
    (Succeeded("saveBudget") \/ Succeeded("saveExpense")) =>
        \A b1, b2 \in budgets :
            (b1.id # b2.id /\ b1.month = b2.month) => b1.name # b2.name

\* C2: every stored expense has a stored budget of its month (the first seven
\* characters of its date) and of its budget name.
C2_EveryExpenseHasBudget ==
    \A e \in expenses : \E b \in budgets : RefersTo(e, b.month, b.name)

\* A successful saveBudget renamed a stored budget.
Renamed ==
    /\ Succeeded("saveBudget")
    /\ lastOp.arg.id # newBudget
    /\ BudgetBefore.name # lastOp.arg.name

\* C3: after a successful rename of a budget of month M from Old to New, the
\* expenses are those of before, those of M and Old now of New, all others
\* with every field as it was.
C3_RenameCascade ==
    Renamed =>
        expenses =
            {IF RefersTo(e, BudgetBefore.month, BudgetBefore.name)
             THEN [e EXCEPT !.budget = lastOp.arg.name] ELSE e :
                e \in lastOp.pre.expenses}

\* deleteBudget was called on a stored budget.
DeleteCalled ==
    /\ lastOp.op = "deleteBudget"
    /\ BudgetsById(lastOp.pre.budgets, lastOp.arg.id) # {}

Referenced ==
    \E e \in lastOp.pre.expenses :
        RefersTo(e, BudgetBefore.month, BudgetBefore.name)

HasDuplicateRow ==
    \E b \in lastOp.pre.budgets :
        /\ b.id # BudgetBefore.id
        /\ b.month = BudgetBefore.month
        /\ b.name = BudgetBefore.name

RemovedExactlyThatRow ==
    /\ lastOp.err = ""
    /\ budgets = lastOp.pre.budgets \ {BudgetBefore}
    /\ expenses = lastOp.pre.expenses

\* C4: deleteBudget on a referenced budget fails and removes nothing when the
\* budget is the only row of its month and name, removes exactly that row
\* when another row has them, and succeeds when no expense refers to it.
C4_GuardedDelete ==
    DeleteCalled =>
        /\ (Referenced /\ ~HasDuplicateRow) =>
               lastOp.err # "" /\ Store = lastOp.pre
        /\ (Referenced /\ HasDuplicateRow) => RemovedExactlyThatRow
        /\ ~Referenced => RemovedExactlyThatRow

\* C5: when a renaming saveBudget that failed under its cascade is issued
\* again and succeeds, the store is the one an uninterrupted run of the call
\* leaves.
C5_RerunCompletes ==
    Succeeded("retrySaveBudget") =>
        LET r == DoSaveBudget(lastOp.pre.budgets, lastOp.pre.expenses, nextId,
                              lastOp.arg)
        IN  budgets = r.budgets /\ expenses = r.expenses

\* C6: a saveBudget, saveExpense, deleteBudget or deleteExpense that throws
\* leaves the budgets and the expenses exactly as they were.
C6_UnchangedOnError ==
    (\/ Failed("saveBudget")
     \/ Failed("saveExpense")
     \/ Failed("deleteBudget")
     \/ Failed("deleteExpense")) => Store = lastOp.pre

StoredIds(st) == {b.id : b \in st.budgets} \cup {e.id : e \in st.expenses}

\* The budgets of bs with a given name and value.
Alike(bs, b) == {x \in bs : x.name = b.name /\ x.value = b.value}

\* C7: copyBudgets(origin, dest) on a connected store succeeds, leaves every
\* stored budget and expense as it was and adds budgets of month dest only,
\* each with an id no stored record has, as many of each name and value as
\* origin holds.
C7_CopyBudgets ==
    (lastOp.op = "copyBudgets" /\ lastOp.err # "nocollection") =>
        LET origin == FetchBudgets(lastOp.pre.budgets, lastOp.arg.originalMonth)
            added  == budgets \ lastOp.pre.budgets
        IN  /\ lastOp.err = ""
            /\ lastOp.pre.budgets \subseteq budgets
            /\ expenses = lastOp.pre.expenses
            /\ \A a \in added :
                  /\ a.month = lastOp.arg.destinationMonth
                  /\ a.id \notin StoredIds(lastOp.pre)
                  /\ \A x \in added : x.id = a.id => x = a
                  /\ Alike(origin, a) # {}
            /\ \A b \in origin :
                  Cardinality(Alike(added, b)) = Cardinality(Alike(origin, b))

\* copyBudgets copied budgets into another month of a store with expenses.
C7_Witness ==
    /\ Succeeded("copyBudgets")
    /\ lastOp.arg.originalMonth # lastOp.arg.destinationMonth
    /\ FetchBudgets(lastOp.pre.budgets, lastOp.arg.originalMonth) # {}
    /\ lastOp.pre.expenses # {}
    /\ budgets # lastOp.pre.budgets

Range(f) == {f[i] : i \in DOMAIN f}

\* An importData(replaceData = true) that succeeded.
Replaced == Succeeded("importData") /\ lastOp.arg.replaceData

\* C8: importData(replaceData = true) of what exportAllData has just returned
\* leaves a store whose budgets and expenses are the exported ones, id for id
\* and field for field, and nothing else of what was stored before.
C8_ExportImportRoundTrip ==
    Replaced =>
        /\ Range(lastOp.arg.budgets) = ExportedBudgets(lastOp.pre.budgets)
        /\ Range(lastOp.arg.expenses) = ExportedExpenses(lastOp.pre.expenses)
        /\ budgets = Range(lastOp.arg.budgets)
        /\ expenses = Range(lastOp.arg.expenses)

\* The import replaced a store of budgets and expenses, one budget of which
\* the export had left out.
C8_Witness ==
    /\ Replaced
    /\ lastOp.pre.budgets \ budgets # {}
    /\ budgets # {}
    /\ expenses # {}

\* C9: after deleteAllData the local store holds no budget and no expense,
\* and with a non-empty syncToken the remote store holds none either.
C9_DeleteAllData ==
    Succeeded("deleteAllData") =>
        /\ budgets = {}
        /\ expenses = {}
        /\ Len(syncToken) > 0 => remote = NoDocuments

\* deleteAllData emptied a local and a remote store that held documents,
\* with a syncToken set.
C9_Witness ==
    /\ Succeeded("deleteAllData")
    /\ Len(syncToken) > 0
    /\ lastOp.pre.budgets # {}
    /\ lastOp.pre.expenses # {}
    /\ lastOp.preRemote # NoDocuments

\* A successful saveExpense of a new expense that names no budget and whose
\* description no stored expense has.
SavedUnclassified ==
    /\ Succeeded("saveExpense")
    /\ lastOp.arg.id = newExpense
    /\ lastOp.arg.budget = ""
    /\ \A e \in lastOp.pre.expenses : e.description # lastOp.arg.description

\* C10: such a save stores the expense with the budget "Misc"; the budget
\* "Misc" of its month is then stored, created with the default value when
\* the month had none, and otherwise the budgets are as they were.
C10_DefaultBudget ==
    SavedUnclassified =>
        \E new \in expenses :
            /\ expenses \ lastOp.pre.expenses = {new}
            /\ new.budget = "Misc"
            /\ LET month == ExpenseMonth(new.date)
               IN  IF MatchingBudgets(lastOp.pre.budgets, month, "Misc") = {}
                   THEN \E misc \in budgets :
                           /\ budgets \ lastOp.pre.budgets = {misc}
                           /\ lastOp.pre.budgets \subseteq budgets
                           /\ misc.name = "Misc"
                           /\ misc.month = month
                           /\ misc.value = DefaultBudgetValue
                   ELSE budgets = lastOp.pre.budgets

\* The default budget was created in a month that had another budget.
C10_WitnessCreated ==
    /\ SavedUnclassified
    /\ \E b \in lastOp.pre.budgets, misc \in budgets \ lastOp.pre.budgets :
          b.month = misc.month

\* C11: saveBudget with the name "Total" fails and writes nothing, whatever
\* the id, month and value, and no run of saves from the empty store leaves a
\* budget named "Total".
C11_NoTotal ==
    /\ (lastOp.op = "saveBudget" /\ lastOp.arg.name = "Total") =>
           lastOp.err # "" /\ Store = lastOp.pre
    /\ \A b \in budgets : b.name # "Total"

\* saveBudget refused to rename a stored budget to "Total".
C11_Witness ==
    /\ Failed("saveBudget")
    /\ lastOp.arg.name = "Total"
    /\ BudgetsById(lastOp.pre.budgets, lastOp.arg.id) # {}
    /\ lastOp.pre.expenses # {}

\* The budget a saveBudget call was given is acceptable but for its value: its
\* name is neither "Total" nor blank, no other stored budget has its name in
\* its month, and its id is the new one or a stored one.
AcceptableBudget ==
    /\ lastOp.arg.name # "Total"
    /\ Trim(lastOp.arg.name) # ""
    /\ DuplicateBudgets(lastOp.pre.budgets, lastOp.arg,
                        NormalMonth(lastOp.arg.month)) = {}
    /\ lastOp.arg.id = newBudget
           \/ BudgetsById(lastOp.pre.budgets, lastOp.arg.id) # {}

\* C12 as stated: saveBudget with value <= 0 fails, and with value 0.01 (1,
\* in hundredths) succeeds for every name, month and id.
C12_AsStated ==
    lastOp.op = "saveBudget" =>
        /\ lastOp.arg.value <= 0 => lastOp.err # ""
        /\ lastOp.arg.value = 1 => lastOp.err = ""

\* C12, amended: saveBudget with value <= 0 fails and writes nothing; with
\* value 0.01 it never fails on the value, and succeeds when the budget is
\* acceptable otherwise.
C12_ValueBound ==
    lastOp.op = "saveBudget" =>
        /\ lastOp.arg.value <= 0 =>
               lastOp.err # "" /\ Store = lastOp.pre
        /\ lastOp.arg.value = 1 =>
               /\ lastOp.err # "value"
               /\ AcceptableBudget => lastOp.err = ""

\* saveBudget refused the value 0 for a budget acceptable otherwise, in a
\* store that holds budgets.
C12_Witness ==
    /\ Failed("saveBudget")
    /\ lastOp.arg.value = 0
    /\ AcceptableBudget
    /\ lastOp.pre.budgets # {}

\* The expense a saveExpense call was given is acceptable but for its cost:
\* its description is not blank, its budget is neither "Total" nor blank
\* (empty is allowed), and its id is the new one or a stored one.
AcceptableExpense ==
    /\ Trim(lastOp.arg.description) # ""
    /\ lastOp.arg.budget # "Total"
    /\ lastOp.arg.budget = "" \/ Trim(lastOp.arg.budget) # ""
    /\ lastOp.arg.id = newExpense
           \/ ExpensesById(lastOp.pre.expenses, lastOp.arg.id) # {}

\* C13 as stated: saveExpense with cost <= 0 fails, and with cost 0.01 (1,
\* in hundredths) succeeds for every description, date, budget name and id.
C13_AsStated ==
    lastOp.op = "saveExpense" =>
        /\ lastOp.arg.cost <= 0 => lastOp.err # ""
        /\ lastOp.arg.cost = 1 => lastOp.err = ""

\* C13, amended: saveExpense with cost <= 0 fails and writes nothing; with
\* cost 0.01 it never fails on the cost, and succeeds when the expense is
\* acceptable otherwise.
C13_CostBound ==
    lastOp.op = "saveExpense" =>
        /\ lastOp.arg.cost <= 0 =>
               lastOp.err # "" /\ Store = lastOp.pre
        /\ lastOp.arg.cost = 1 =>
               /\ lastOp.err # "cost"
               /\ AcceptableExpense => lastOp.err = ""

\* saveExpense refused the cost 0 for an expense acceptable otherwise, in a
\* store that holds expenses.
C13_Witness ==
    /\ Failed("saveExpense")
    /\ lastOp.arg.cost = 0
    /\ AcceptableExpense
    /\ lastOp.pre.expenses # {}

\* The expense a successful saveExpense has stored: the one with the id it
\* was given, or the one whose id is new to the store.
SavedExpense ==
    IF lastOp.arg.id = newExpense
    THEN CHOOSE e \in expenses :
            \A x \in lastOp.pre.expenses : x.id # e.id
    ELSE CHOOSE e \in expenses : e.id = lastOp.arg.id

\* The stored expenses with the description of the expense given.
SameDescription ==
    {e \in lastOp.pre.expenses : e.description = lastOp.arg.description}

\* The expense given is looked up for a budget: it is new, and its budget is
\* empty or "Misc".
LookedUp ==
    /\ lastOp.arg.id = newExpense
    /\ lastOp.arg.budget \in {"", "Misc"}

\* C18: a new expense with no budget or the budget "Misc" is stored with the
\* budget of a stored expense of the same description when there is one; an
\* expense with a stored id, or with another budget, is stored with the
\* budget given, "Misc" when it is empty.
C18_AutoCategorization ==
    Succeeded("saveExpense") =>
        IF LookedUp /\ SameDescription # {}
        THEN SavedExpense.budget \in {e.budget : e \in SameDescription}
        ELSE SavedExpense.budget =
                IF lastOp.arg.budget = "" THEN "Misc" ELSE lastOp.arg.budget

\* A new expense with no budget took the budget "Food" of a stored expense
\* with its description.
C18_Witness ==
    /\ Succeeded("saveExpense")
    /\ LookedUp
    /\ lastOp.arg.budget = ""
    /\ SameDescription # {}
    /\ SavedExpense.budget = "Food"

\* C19: a successful saveBudget on a stored id leaves that budget with its
\* id and month and the name and value given, every other budget as it was,
\* and every expense as it was but for the budget field of expenses of that
\* budget's month and old name, which is the new name.
C19_UpdateFrame ==
    (Succeeded("saveBudget") /\ lastOp.arg.id # newBudget) =>
        /\ budgets = (lastOp.pre.budgets \ {BudgetBefore})
                         \cup {[BudgetBefore EXCEPT !.name = lastOp.arg.name,
                                                    !.value = lastOp.arg.value]}
        /\ {e.id : e \in expenses} = {e.id : e \in lastOp.pre.expenses}
        /\ \A e \in lastOp.pre.expenses :
              \/ e \in expenses
              \/ /\ [e EXCEPT !.budget = lastOp.arg.name] \in expenses
                 /\ RefersTo(e, BudgetBefore.month, BudgetBefore.name)

\* saveBudget renamed a stored budget that had expenses, with an input month
\* other than the stored one.
C19_Witness ==
    /\ Renamed
    /\ NormalMonth(lastOp.arg.month) # BudgetBefore.month
    /\ expenses # lastOp.pre.expenses

\* The calls that write to the local store.
LocalOperations ==
    {"saveBudget", "saveExpense", "deleteBudget", "deleteExpense",
     "copyBudgets", "importData", "deleteAllData"}

\* The error and the local store a call leaves.
LocalOutcome(r) ==
    [err |-> r.err, budgets |-> r.budgets, expenses |-> r.expenses]

\* What the call of lastOp leaves when it is made on the same stores and
\* settings with the remote store answering.
OutcomesIfReachable ==
    LET bs  == lastOp.pre.budgets
        es  == lastOp.pre.expenses
        nid == lastOp.before.nextId
        arg == lastOp.arg
        token   == lastOp.before.syncToken
        reached == [lastOp.before.stores EXCEPT !.reachable = TRUE]
        on(early, r) ==
            IF reached.collections \/ r.err \in early THEN LocalOutcome(r)
            ELSE LocalOutcome(Outcome("nocollection", bs, es, nid))
    IN  CASE lastOp.op = "saveBudget" ->
                {on({"total", "name", "value"}, DoSaveBudget(bs, es, nid, arg))}
          [] lastOp.op = "saveExpense" ->
                {on({"description", "cost"},
                    DoSaveExpense(bs, es, nid, arg, found)) :
                    found \in InheritableBudgets(es, arg)}
          [] lastOp.op = "deleteBudget" ->
                {on({}, DoDeleteBudget(bs, es, nid, arg.id))}
          [] lastOp.op = "deleteExpense" ->
                {on({}, DoDeleteExpense(bs, es, nid, arg.id))}
          [] lastOp.op = "copyBudgets" ->
                {on({}, DoCopyBudgets(bs, es, nid, arg.originalMonth,
                                      arg.destinationMonth))}
          [] lastOp.op = "importData" ->
                {LocalOutcome(DoImportData(reached, token, arg.replaceData,
                                           arg.budgets, arg.expenses))}
          [] lastOp.op = "deleteAllData" ->
                {LocalOutcome(DoDeleteAllData(reached, token))}

\* A call that writes to the local store, made with a syncToken set and the
\* remote store not answering.
CalledUnreachable ==
    /\ lastOp.op \in LocalOperations
    /\ Len(lastOp.before.syncToken) > 0
    /\ ~lastOp.before.stores.reachable

\* C15: with a syncToken set and the remote store not answering, every call
\* that writes to the local store fails or succeeds, and leaves the local
\* store, as it does with the remote store answering.
C15_RemoteFailureIsSilent ==
    CalledUnreachable =>
        LocalOutcome([err |-> lastOp.err, budgets |-> budgets,
                      expenses |-> expenses]) \in OutcomesIfReachable

\* A sync event has just called DB.updateSyncDate(alive).
SyncEventCalled(alive) ==
    /\ lastOp.op = "updateSyncDate"
    /\ lastOp.arg.alive = alive

\* C16: the setting lastSyncDate changes only when a sync event with
\* alive = true (or change.ok = true) is handled, and then to a non-empty
\* timestamp; an event with alive = false leaves it as it was; and once it is
\* non-empty it stays non-empty.
C16_LastSyncDate ==
    /\ [](SyncEventCalled(TRUE) => lastSyncDate \in Timestamps)
    /\ [](SyncEventCalled(FALSE) =>
             lastSyncDate = lastOp.before.lastSyncDate)
    /\ [][/\ lastSyncDate' # lastSyncDate => SyncEventCalled(TRUE)'
          /\ lastSyncDate # "" => lastSyncDate' # ""]_vars

\* A sync event with alive = false was handled after lastSyncDate was
\* written.
C16_Witness ==
    /\ SyncEventCalled(FALSE)
    /\ lastOp.before.lastSyncDate # ""


\* The connections that are open.
Live == {c \in Connections : conns[c].live}

\* C14: under any interleaving of the handlers at most one connection to the
\* store is live, and a connection is opened only after the one before it
\* had its subscriptions unsubscribed and was destroyed: whenever a
\* connection is opened, none but it is live, and no closed connection
\* keeps a subscription.
C14_SingleConnection ==
    /\ Cardinality(Live) <= 1
    /\ \A c \in Connections :
          conns[c].opened /\ ~conns[c].live => ~conns[c].subscribed

\* A handler that held no connection as it called ensureDBConnection, after
\* a connect had failed, and is through with ensureDBConnection.
Recovering(t) ==
    /\ tasks[t].pc = "ensured"
    /\ tasks[t].held = 0
    /\ tasks[t].failed > 0

\* C17: a connect that fails gives null and throws nothing, so the handler
\* goes on holding no connection; the next ensureDBConnection, holding
\* none, reloads and so connects again, and when that connect succeeds the
\* layout holds the connection it has opened, which is live.
C17_ConnectFailure ==
    /\ [](\A t \in Tasks :
             tasks[t].pc \notin {"idle", "returned"} /\ tasks[t].held = 0
                 => tasks[t].reloads)
    /\ [][\A t \in Tasks :
             tasks[t].pc = "cleaned" /\ sharedDb = 0 /\ tasks'[t] # tasks[t]
                 => tasks'[t].pc = "connecting"]_vars
    /\ [][\A t \in Tasks :
             tasks[t].pc = "connecting" /\ tasks'[t].pc # "connecting" =>
                 /\ tasks'[t].pc = "ensured"
                 /\ thisDb' = sharedDb'
                 /\ \/ /\ failures' = failures + 1
                       /\ thisDb' = 0
                       /\ conns' = conns
                    \/ /\ failures' = failures
                       /\ thisDb' # 0
                       /\ ~conns[thisDb'].opened
                       /\ conns'[thisDb'].live]_vars

\* A connect has failed, and a later handler that held no connection has
\* connected: the layout holds a live connection.
C17_Witness ==
    /\ thisDb # 0
    /\ conns[thisDb].live
    /\ \E t \in Tasks : Recovering(t) /\ tasks[t].reloads

\* A saveSetting that has completed with the token it has written still the
\* stored one.
SettingSaved(t) ==
    /\ tasks[t].kind = "saveSetting"
    /\ tasks[t].pc = "returned"
    /\ tasks[t].result = "ok"
    /\ tasks[t].value = syncToken

\* C20: every live connection replicates exactly when the syncToken was not
\* empty as it was opened; and once saveSetting has changed the syncToken
\* and completed, the connection the layout holds is one opened with the
\* new token, and no other connection keeps a subscription or replicates.
C20_SyncFollowsToken ==
    /\ \A c \in Live : conns[c].replicating <=> Len(conns[c].token) > 0
    /\ \A t \in Tasks :
          SettingSaved(t) =>
              /\ sharedDb # 0
              /\ conns[sharedDb].live
              /\ conns[sharedDb].token = syncToken
              /\ \A c \in Connections \ {sharedDb} :
                    ~conns[c].subscribed /\ ~conns[c].replicating


\* The months loadData seeds.
SeededMonths == {CurrentMonth, NextMonth}

\* C21: under any interleaving of overlapping loadData calls, a month that
\* loadData seeds never holds two budgets of the same name.
C21_SeedingNeverDuplicates ==
    \A a \in budgets, b \in budgets :
        (a.month \in SeededMonths /\ a.month = b.month /\ a.name = b.name)
            => a = b

\* C22: under any interleaving of loadData calls, no two reload timers that
\* loadData has scheduled are pending together.
C22_OneReloadTimer == Cardinality(timers) <= 1

\* The loadData call of the handler t ends in this step, by returning or by
\* throwing.
LoadDataEnds(t) ==
    /\ tasks[t].pc # "returned"
    /\ tasks'[t].pc = "returned"
    /\ tasks'[t].stage = 2

\* C23: when a loadData call ends, whether it returns or throws, a reload
\* timer is pending, so that loadData is called again with no action of the
\* user.
C23_ReloadNeverStops ==
    [][\A t \in Tasks : LoadDataEnds(t) => Cardinality(timers') > 0]_vars

=============================================================================
